---- MODULE Spec2Model ----
(***************************************************************************)
(* servee/frontendadmin/insert.py: the Insert plugin classes of the servee *)
(* front-end admin.  BaseInsert is the capability interface, ModelInsert   *)
(* the Insert backed by a Django model: template chains, get_object,       *)
(* render, the five admin sub-views and their URL patterns.                *)
(*                                                                         *)
(* Strings that the code only formats and compares (template names, URL    *)
(* names) are TLA+ strings.  Strings that the code takes apart (object ids *)
(* and request paths) are sequences: an object id is a sequence of         *)
(* characters, a request path a sequence of tokens, where a token is one   *)
(* id character, the separator "/" or one of the words of the patterns.    *)
(***************************************************************************)
EXTENDS Integers, Sequences, FiniteSets, TLC

(* ------------------------------ bounds --------------------------------- *)

\* longest object id, in characters
MaxIdLen == 3

\* longest request path, in tokens
MaxPathLen == 5

\* primary keys of the objects the store can hold are 1 .. MaxPk
MaxPk == 3

(* --------------------------- characters -------------------------------- *)

\* the characters object ids are made of
IdChars == {"1", "3", "_"}

DecDigits == <<"0", "1", "2", "3", "4", "5", "6", "7", "8", "9">>

HexDigits == <<"0", "1", "2", "3", "4", "5", "6", "7", "8", "9",
               "a", "b", "c", "d", "e", "f">>

SeqsUpTo(S, n) == UNION {[1..k -> S] : k \in 0..n}

\* the object ids a caller can pass: the non-empty ones are what (.+) captures
ObjectIds == SeqsUpTo(IdChars, MaxIdLen)

IndexIn(c, digits) == CHOOSE i \in 1..Len(digits) : digits[i] = c

IsIn(c, digits) == \E i \in 1..Len(digits) : digits[i] = c

\* Python's chr(n) for n < 256: the decimal digits are themselves, every
\* other character is named by its code ("chr(17)" is one character)
chr(n) == IF n \in 48..57 THEN DecDigits[n - 47] ELSE "chr(" \o ToString(n) \o ")"

\* Python's int(s, base) on a string without sign or blanks: the number, or
\* ValueError
RECURSIVE DigitsValue(_, _)
DigitsValue(s, digits) ==
    IF s = <<>> THEN 0
    ELSE Len(digits) * DigitsValue(SubSeq(s, 1, Len(s) - 1), digits)
         + (IndexIn(s[Len(s)], digits) - 1)

int(s, digits) ==
    IF s # <<>> /\ \A i \in 1..Len(s) : IsIn(s[i], digits)
    THEN [ok |-> TRUE, value |-> DigitsValue(s, digits)]
    ELSE [ok |-> FALSE, value |-> 0]

(* ------------------ django.contrib.admin.util.unquote ------------------ *)

\* str.split("_")
RECURSIVE split(_)
split(s) ==
    IF \A i \in 1..Len(s) : s[i] # "_" THEN <<s>>
    ELSE LET i == CHOOSE j \in 1..Len(s) :
                      s[j] = "_" /\ \A k \in 1..(j - 1) : s[k] # "_"
         IN  <<SubSeq(s, 1, i - 1)>> \o split(SubSeq(s, i + 1, Len(s)))

\* one item after an underscore: "_XY..." is chr(0xXY) followed by the rest,
\* anything else keeps its underscore
unquote_item(item) ==
    IF Len(item) >= 2
    THEN LET n == int(SubSeq(item, 1, 2), HexDigits)
         IN  IF n.ok THEN <<chr(n.value)>> \o SubSeq(item, 3, Len(item))
             ELSE <<"_">> \o item
    ELSE <<"_">> \o item

RECURSIVE join_items(_)
join_items(items) ==
    IF items = <<>> THEN <<>>
    ELSE unquote_item(Head(items)) \o join_items(Tail(items))

unquote(s) == LET list == split(s) IN Head(list) \o join_items(Tail(list))

(* ------------------------------ state ---------------------------------- *)

VARIABLES
    app_label,      \* self.model._meta.app_label
    module_name,    \* self.model._meta.module_name
    objects,        \* the rows of self.model: the object store
    initial,        \* the rows the store held when the insert was registered
    templates,      \* the names of the template files that exist
    request,        \* the last call served: the view or method and its argument
    response,       \* what that call came to: a response, a value or an exception
    urlpatterns,    \* what get_urls() returned, <<>> before it is called
    path,           \* the request path handed to the URL resolver
    match           \* what the resolver made of path

vars == <<app_label, module_name, objects, initial, templates, request,
          response, urlpatterns, path, match>>

\* a row of the model: its primary key and its one other field
Instance(pk) == [pk |-> pk, title |-> "title" \o ToString(pk)]

AllObjects == {Instance(pk) : pk \in 1..MaxPk}

\* Python's None where an instance is expected
None == [pk |-> 0, title |-> "None"]

\* the models an insert is declared for: (app_label, module_name)
Models == {<<"news", "story">>, <<"gallery", "image">>}

(* -------------------- ModelInsert.__init__: templates ------------------ *)

Base == "servee/wysiwyg/insert/"

item_panel_template ==
    << Base \o app_label \o "/" \o module_name \o "/_panel.html",
       Base \o app_label \o "/_panel.html",
       Base \o "_panelt.html" >>

item_display_template ==
    << Base \o app_label \o "/" \o module_name \o "/_list.html",
       Base \o app_label \o "/_list.html",
       Base \o "_item_list.html" >>

item_detail_template ==
    << Base \o app_label \o "/" \o module_name \o "/_detail.html",
       Base \o app_label \o "/_detail.html",
       Base \o "_item_detail.html" >>

item_list_template ==
    << Base \o app_label \o "/" \o module_name \o "/_list.html",
       Base \o app_label \o "/_list.html",
       Base \o "_item_list.html" >>

item_render_template ==
    << Base \o app_label \o "/" \o module_name \o "/_render.html",
       Base \o app_label \o "/_render.html",
       Base \o "_item_render.html" >>

\* the chain of each template kind
TemplateChain(kind) ==
    CASE kind = "panel"   -> item_panel_template
      [] kind = "display" -> item_display_template
      [] kind = "detail"  -> item_detail_template
      [] kind = "list"    -> item_list_template
      [] kind = "render"  -> item_render_template

TemplateKinds == {"panel", "display", "detail", "list", "render"}

(* ------------------------- outcomes of a call -------------------------- *)

NoCall == [op |-> "none", arg |-> <<>>]

Blank == [outcome |-> "none", exc |-> "", body |-> "", template |-> "",
          keys |-> {}, object |-> None, value |-> ""]

Raise(exc) == [Blank EXCEPT !.outcome = "raise", !.exc = exc]

Return(value) == [Blank EXCEPT !.outcome = "return", !.value = value]

ReturnObject(obj) == [Blank EXCEPT !.outcome = "return", !.object = obj]

\* django.http.HttpResponse(body)
HttpResponse(body) == [Blank EXCEPT !.outcome = "response", !.body = body]

\* django.template.loader.select_template: the first name of the list that
\* names an existing template, TemplateDoesNotExist when none does
select_template(names) ==
    IF \E i \in 1..Len(names) : names[i] \in templates
    THEN LET i == CHOOSE j \in 1..Len(names) :
                      names[j] \in templates
                      /\ \A k \in 1..(j - 1) : names[k] \notin templates
         IN  [ok |-> TRUE, name |-> names[i]]
    ELSE [ok |-> FALSE, name |-> ""]

\* django.shortcuts.render_to_response with a list of template names: the
\* response renders the selected template with the given context
render_to_response(names, keys, obj) ==
    LET t == select_template(names)
    IN  IF t.ok
        THEN [Blank EXCEPT !.outcome = "response", !.template = t.name,
                           !.keys = keys, !.object = obj]
        ELSE Raise("TemplateDoesNotExist")

(* ----------------------- ModelInsert.get_object ------------------------ *)

\* model._meta.pk.to_python of an AutoField: int(value), a ValueError
\* becoming a ValidationError
to_python(value) == int(value, DecDigits)

\* self.queryset(): ordering is None, the rows of the default manager
queryset == objects

\* QuerySet.get(pk=n): the row, or DoesNotExist
get(qs, pk) ==
    IF \E o \in qs : o.pk = pk
    THEN [ok |-> TRUE, object |-> CHOOSE o \in qs : o.pk = pk]
    ELSE [ok |-> FALSE, object |-> None]

\* get_object with the ValidationError left uncaught
get_object_uncaught(object_id) ==
    LET pk == to_python(object_id)
    IN  IF ~pk.ok THEN Raise("ValidationError")
        ELSE LET row == get(queryset, pk.value)
             IN  IF ~row.ok THEN ReturnObject(None)
                 ELSE ReturnObject(row.object)

\* get_object: what the call comes to, both exceptions caught
get_object(object_id) ==
    LET pk == to_python(object_id)
    IN  IF ~pk.ok THEN ReturnObject(None)              \* ValidationError
        ELSE LET row == get(queryset, pk.value)
             IN  IF ~row.ok THEN ReturnObject(None)    \* model.DoesNotExist
                 ELSE ReturnObject(row.object)

(* ------------------------- ModelInsert.render -------------------------- *)

\* str() of a list of strings, which is what the template loaders make of
\* a template name that is not a string
RECURSIVE str_items(_)
str_items(names) ==
    IF names = <<>> THEN ""
    ELSE "'" \o Head(names) \o "'"
         \o (IF Len(names) > 1 THEN ", " ELSE "") \o str_items(Tail(names))

str_list(names) == "[" \o str_items(names) \o "]"

\* django.template.loader.get_template: one template, by its name
get_template(name) ==
    IF name \in templates THEN [ok |-> TRUE, name |-> name]
    ELSE [ok |-> FALSE, name |-> ""]

\* render(item): the row is fetched by pk, then get_template is handed the
\* whole list item_render_template as if it were one name
render(item) ==
    LET row == get(objects, item)
    IN  IF ~row.ok THEN Raise("DoesNotExist")
        ELSE LET t == get_template(str_list(item_render_template))
             IN  IF ~t.ok THEN Raise("TemplateDoesNotExist")
                 ELSE [Blank EXCEPT !.outcome = "return", !.template = t.name,
                                    !.keys = {"MEDIA_URL", "STATIC_URL", "item"},
                                    !.object = row.object]

(* ------------------------------ BaseInsert ----------------------------- *)

\* the capabilities BaseInsert leaves to its subclasses
BaseStubs == {"items", "get_items", "add_item", "edit_item", "content",
              "render_url"}

\* the parameters each method of BaseInsert declares, self included
BaseParams(method) ==
    CASE method = "edit_item" -> 2
      [] method = "get_urls"  -> 0
      [] OTHER                -> 1

\* the body of a method of BaseInsert: the stubs return the exception class,
\* get_urls returns the empty list
BaseBody(method) ==
    IF method = "get_urls" THEN Return("[]") ELSE Return("NotImplementedError")

\* calling a method on an instance binds self as the first positional
\* argument: TypeError unless the arguments are as many as the parameters
call_method(method, nargs) ==
    IF 1 + nargs # BaseParams(method) THEN Raise("TypeError")
    ELSE BaseBody(method)

(* ------------------------- actions: the views -------------------------- *)

Call(op, arg) == [op |-> op, arg |-> arg]

\* what no view and no method of the insert touches
Frame == UNCHANGED <<app_label, module_name, initial, templates, urlpatterns,
                     path, match>>

panel_view ==
    /\ request' = Call("panel_view", <<>>)
    /\ response' = render_to_response(item_panel_template, {"insert"}, None)
    /\ UNCHANGED objects
    /\ Frame

list_view ==
    /\ request' = Call("list_view", <<>>)
    /\ response' = render_to_response(item_list_template, {"insert"}, None)
    /\ UNCHANGED objects
    /\ Frame

detail_view(object_id) ==
    LET obj == get_object(unquote(object_id)).object
    IN  /\ request' = Call("detail_view", object_id)
        /\ response' = render_to_response(item_detail_template,
                                          {"insert", "object"}, obj)
        /\ UNCHANGED objects
        /\ Frame

\* a delete that empties the queryset instead of removing the one row
delete_queryset(obj) == {}

\* Model.delete(): the row with the instance's primary key leaves the store
delete(obj) == {o \in objects : o.pk # obj.pk}

\* render_view with the body of delete_view pasted in before the response
render_view_deleting(object_id) ==
    LET obj == get_object(unquote(object_id)).object
    IN  /\ request' = Call("render_view", object_id)
        /\ response' = render_to_response(item_render_template,
                                          {"insert", "object"}, obj)
        /\ objects' = delete(obj)
        /\ Frame

render_view(object_id) ==
    LET obj == get_object(unquote(object_id)).object
    IN  /\ request' = Call("render_view", object_id)
        /\ response' = render_to_response(item_render_template,
                                          {"insert", "object"}, obj)
        /\ UNCHANGED objects
        /\ Frame

\* delete_view: obj.delete() on None is an AttributeError
delete_view(object_id) ==
    LET obj == get_object(unquote(object_id)).object
    IN  /\ request' = Call("delete_view", object_id)
        /\ IF obj = None
           THEN response' = Raise("AttributeError") /\ UNCHANGED objects
           ELSE response' = HttpResponse("Deleted") /\ objects' = delete(obj)
        /\ Frame

\* wrap(view): admin_site.admin_view runs the view for a request that has
\* permission and answers any other request with the login page, whichever
\* of the five views it was for
login ==
    /\ request' = Call("login", <<>>)
    /\ response' = [Blank EXCEPT !.outcome = "login"]
    /\ UNCHANGED objects
    /\ Frame

\* the object ids the URL patterns can capture: (.+) is not empty
Captured == ObjectIds \ {<<>>}

PanelView == panel_view

ListView == list_view

DetailView == \E object_id \in Captured : detail_view(object_id)

RenderView == \E object_id \in Captured : render_view(object_id)

DeleteView == \E object_id \in Captured : delete_view(object_id)

(* ------------------------ actions: direct calls ------------------------ *)

GetObject ==
    \E object_id \in ObjectIds :
        /\ request' = Call("get_object", object_id)
        /\ response' = get_object(object_id)
        /\ UNCHANGED objects
        /\ Frame

Render ==
    \E item \in 1..MaxPk :
        /\ request' = Call("render", <<ToString(item)>>)
        /\ response' = render(item)
        /\ UNCHANGED objects
        /\ Frame

\* a method of a BaseInsert that overrides nothing, called with self and
\* with one more argument or none
BaseInsertCall ==
    \E method \in BaseStubs \cup {"get_urls"}, nargs \in 0..1 :
        /\ request' = Call("BaseInsert." \o method, <<ToString(nargs)>>)
        /\ response' = call_method(method, nargs)
        /\ UNCHANGED objects
        /\ Frame

(* ------------------------ ModelInsert.get_urls ------------------------- *)

\* the words of the URL patterns, each one token of a request path
Words == {"panel", "list", "detail", "render", "delete"}

PathTokens == {"1", "/"} \cup Words

Paths == SeqsUpTo(PathTokens, MaxPathLen)

\* r"^panel/$": the whole path is the literal
Literal(tokens) == [group |-> FALSE, literal |-> tokens]

\* r"^(.+)/detail/$": a captured group, then the literal up to the end
GroupThen(tokens) == [group |-> TRUE, literal |-> tokens]

\* url(regex, wrap(view), name=...)
url(regex, view, name) == [regex |-> regex, callback |-> view, name |-> name]

\* "%s_%s_<view>" % info
UrlName(view) == app_label \o "_" \o module_name \o "_" \o view

\* get_urls with the render pattern wired to the detail view
get_urls_miswired ==
    << url(Literal(<<"panel", "/">>), "panel_view", UrlName("panel")),
       url(Literal(<<"list", "/">>), "list_view", UrlName("list")),
       url(GroupThen(<<"/", "detail", "/">>), "detail_view", UrlName("detail")),
       url(GroupThen(<<"/", "render", "/">>), "detail_view", UrlName("render")),
       url(GroupThen(<<"/", "delete", "/">>), "delete_view", UrlName("delete")) >>

\* patterns("", ...): the five patterns, in the order they are written
get_urls ==
    << url(Literal(<<"panel", "/">>), "panel_view", UrlName("panel")),
       url(Literal(<<"list", "/">>), "list_view", UrlName("list")),
       url(GroupThen(<<"/", "detail", "/">>), "detail_view", UrlName("detail")),
       url(GroupThen(<<"/", "render", "/">>), "render_view", UrlName("render")),
       url(GroupThen(<<"/", "delete", "/">>), "delete_view", UrlName("delete")) >>

\* re.search of an anchored pattern: (.+) takes one character or more, and
\* being greedy with the literal anchored at the end, all but the literal
regex_search(regex, p) ==
    IF regex.group
    THEN LET n == Len(p) - Len(regex.literal)
         IN  IF n >= 1 /\ SubSeq(p, n + 1, Len(p)) = regex.literal
             THEN [ok |-> TRUE, groups |-> <<SubSeq(p, 1, n)>>]
             ELSE [ok |-> FALSE, groups |-> <<>>]
    ELSE [ok |-> p = regex.literal, groups |-> <<>>]

NoMatch == [state |-> "unresolved", callback |-> "", args |-> <<>>,
            url_name |-> ""]

\* RegexURLResolver.resolve: the first pattern that matches, in order, or
\* Resolver404
resolve(patterns, p) ==
    IF \E i \in 1..Len(patterns) : regex_search(patterns[i].regex, p).ok
    THEN LET i == CHOOSE j \in 1..Len(patterns) :
                      /\ regex_search(patterns[j].regex, p).ok
                      /\ \A k \in 1..(j - 1) :
                             ~regex_search(patterns[k].regex, p).ok
         IN  [state |-> "match", callback |-> patterns[i].callback,
              args |-> regex_search(patterns[i].regex, p).groups,
              url_name |-> patterns[i].name]
    ELSE [NoMatch EXCEPT !.state = "Resolver404"]

\* the admin site asks the insert for its urls
GetUrls ==
    /\ urlpatterns = <<>>
    /\ urlpatterns' = get_urls
    /\ UNCHANGED <<app_label, module_name, objects, initial, templates,
                   request, response, path, match>>

\* a request path is resolved against the registered patterns
Resolve ==
    /\ urlpatterns # <<>>
    /\ match.state = "unresolved"
    /\ match' = resolve(urlpatterns, path)
    /\ UNCHANGED <<app_label, module_name, objects, initial, templates,
                   request, response, path, urlpatterns>>

(* --------------------------- specification ----------------------------- *)

\* the template files of one level of the chains (1 per model, 2 per app,
\* 3 default), for every kind
TemplateLevel(i) == {TemplateChain(kind)[i] : kind \in TemplateKinds}

AllTemplates == UNION {TemplateLevel(i) : i \in 1..3}

InitCommon ==
    /\ initial = objects
    /\ request = NoCall
    /\ response = Blank
    /\ urlpatterns = <<>>
    /\ path = <<>>
    /\ match = NoMatch

\* the insert of the model news.story over a full store, every template in
\* place
Init ==
    /\ app_label = "news" /\ module_name = "story"
    /\ objects = AllObjects
    /\ templates = AllTemplates
    /\ InitCommon

\* the insert of either model with any choice of template levels in place
InitTemplates ==
    /\ \E m \in Models : app_label = m[1] /\ module_name = m[2]
    /\ objects = AllObjects
    /\ \E levels \in SUBSET (1..3) :
           templates = UNION {TemplateLevel(i) : i \in levels}
    /\ InitCommon

Next ==
    \/ PanelView
    \/ ListView
    \/ DetailView
    \/ RenderView
    \/ DeleteView
    \/ login
    \/ GetObject
    \/ Render
    \/ BaseInsertCall

Spec == Init /\ [][Next]_vars

SpecTemplates == InitTemplates /\ [][Next]_vars

\* the URL resolver: a model, a request path, the patterns of get_urls
InitUrls ==
    /\ \E m \in Models : app_label = m[1] /\ module_name = m[2]
    /\ objects = AllObjects
    /\ templates = AllTemplates
    /\ initial = objects
    /\ request = NoCall
    /\ response = Blank
    /\ urlpatterns = <<>>
    /\ path \in Paths
    /\ match = NoMatch

NextUrls ==
    \/ GetUrls
    \/ Resolve

SpecUrls == InitUrls /\ [][NextUrls]_vars

(* ------------------------------ claims --------------------------------- *)

\* the patterns of a list that match a path
Matching(patterns, p) ==
    {i \in 1..Len(patterns) : regex_search(patterns[i].regex, p).ok}

\* the path is <id>/<word>/ for a non-empty id
IsIdThen(p, word) ==
    /\ Len(p) >= 4
    /\ SubSeq(p, Len(p) - 2, Len(p)) = <<"/", word, "/">>

HasPk(object_id, pk) ==
    LET v == to_python(object_id) IN v.ok /\ v.value = pk

\* C2: get_object(object_id) returns the stored instance whose primary key
\* equals object_id when there is one, and returns None, never raising, when
\* no instance matches or object_id fails validation; the store is unchanged.
C2_GetObject ==
    /\ [](request.op = "get_object" =>
            /\ response.outcome = "return"
            /\ IF \E o \in objects : HasPk(request.arg, o.pk)
               THEN /\ response.object \in objects
                    /\ HasPk(request.arg, response.object.pk)
               ELSE response.object = None)
    /\ [][GetObject => objects' = objects]_vars

\* C2 witness: get_object was called with an id that fails validation and
\* returned None
C2_Witness ==
    /\ request.op = "get_object"
    /\ request.arg = <<"_", "3", "1">>
    /\ ~to_python(request.arg).ok
    /\ response = ReturnObject(None)

\* the object id names the row pk, as passed (raw) or as the view decodes it
Designates(object_id, pk) ==
    HasPk(object_id, pk) \/ HasPk(unquote(object_id), pk)

FirstExisting(chain) ==
    chain[CHOOSE i \in 1..Len(chain) :
              chain[i] \in templates /\ \A k \in 1..(i - 1) : chain[k] \notin templates]

\* the template kind each view renders
KindOf(op) ==
    CASE op = "panel_view"  -> "panel"
      [] op = "list_view"   -> "list"
      [] op = "detail_view" -> "detail"
      [] op = "render_view" -> "render"

\* C3: for each of the five template kinds (panel, display, detail, list,
\* render) the chain has three entries, the per-app-and-model path
\* servee/wysiwyg/insert/<app_label>/<module_name>/_<kind>.html, then the
\* per-app path servee/wysiwyg/insert/<app_label>/_<kind>.html, then a
\* default; a view renders the first entry of its chain that exists.
C3_TemplateChains ==
    /\ \A kind \in TemplateKinds :
           LET chain == TemplateChain(kind)
           IN  /\ Len(chain) = 3
               /\ chain[1] = "servee/wysiwyg/insert/" \o app_label \o "/"
                                 \o module_name \o "/_" \o kind \o ".html"
               /\ chain[2] = "servee/wysiwyg/insert/" \o app_label
                                 \o "/_" \o kind \o ".html"
               /\ chain[3] \notin {chain[1], chain[2]}
    /\ (request.op \in {"panel_view", "list_view", "detail_view", "render_view"}
        /\ response.outcome = "response") =>
           response.template = FirstExisting(TemplateChain(KindOf(request.op)))

\* C5: every capability BaseInsert leaves unimplemented, called as it is
\* declared, ends in a NotImplementedError, not in a normal return.
C5_StubsRaise ==
    \A m \in BaseStubs :
        request = Call("BaseInsert." \o m, <<ToString(BaseParams(m) - 1)>>) =>
            /\ response.outcome = "raise"
            /\ response.exc = "NotImplementedError"

\* C6: render(pk), for the primary key of an existing object, returns the
\* HTML of the render template given a context of exactly item, MEDIA_URL
\* and STATIC_URL, item being the object with that pk.
C6_Render ==
    \A o \in objects :
        request = Call("render", <<ToString(o.pk)>>) =>
            /\ response.outcome = "return"
            /\ response.template \in
                   {item_render_template[i] : i \in 1..Len(item_render_template)}
            /\ response.keys = {"item", "MEDIA_URL", "STATIC_URL"}
            /\ response.object = o

\* C7: get_urls() called on a BaseInsert that does not override it returns
\* an empty set of patterns and completes without error.
C7_BaseGetUrls ==
    request = Call("BaseInsert.get_urls", <<"0">>) =>
        /\ response.outcome = "return"
        /\ response.value = "[]"

====
